---- MODULE Spec2Model ----
(***************************************************************************)
(* A model of bcftools' +split plugin (plugins/split.c): the group         *)
(* registry built by init_subsets, the tag selector and the projected      *)
(* header built by init_data, the record transcoder (rec_set_info,         *)
(* rec_set_format) and the per-record fan-out of process.                  *)
(*                                                                         *)
(* Strings that the code inspects character by character (sample names,    *)
(* rename values, output paths) are sequences of one-character strings.    *)
(* Binary blocks (shared.s, indiv.s, fmt->p) are sequences of bytes.       *)
(* C indices are kept 0-based; TLA+ sequences are 1-based, so a[i] of the  *)
(* code is a[i+1] here.                                                    *)
(***************************************************************************)
EXTENDS Integers, Sequences, FiniteSets, TLC

\* pc       where run is: "args", "subsets", "tags", "header", "open" (the
\*          steps of init_data still to take), "stream", "done", and
\*          "fatal" (error() was called) or "crash" (a NULL pointer was read)
\* cfg      the command line: samples_fname, keep_tags, filter_str, filter_logic
\* sets     args->sets[0..nsets-1]
\* nwarn    the warnings printed by init_subsets
\* sel      the tag selector: args->keep_info, keep_fmt, info_tags, fmt_tags, ...
\* tmp_hdr  the projected header
\* stream   the records of the input file
\* io       the sink operations that still succeed (-1: all of them)
\* nread    the records pulled from the stream so far
\* rec      the record process was last called with
\* outs     what process did with it, group by group
VARIABLES pc, cfg, sets, nwarn, sel, tmp_hdr, stream, io, nread, rec, outs

vars == <<pc, cfg, sets, nwarn, sel, tmp_hdr, stream, io, nread, rec, outs>>

----------------------------------------------------------------------------
(* Bounds of the model *)

\* longest samples file (number of lines)
MaxLines == 2
\* longest tag list given with -k (number of comma-separated tokens)
MaxTags == 2
\* longest input stream of the filter runs (number of records)
MaxRecs == 2
\* longest input stream of the tag runs (number of records)
MaxTagRecs == 1

----------------------------------------------------------------------------
(* Program constants *)

FLT_INCLUDE == 1
FLT_EXCLUDE == 2

\* a NULL char* (an unset rename slot, an absent file name)
NullPtr == <<"NULL">>
\* a NULL array pointer (set->rename of a group without renames, the kstring's
\* s before the first kputc); an allocated array is never empty
NoArray == <<>>
\* a NULL bcf_hdr_t* and a NULL filter_t*
NoHdr == [samples |-> <<>>, decl |-> {}]
NoFilter == ""

----------------------------------------------------------------------------
(* Generic helpers *)

SeqsUpTo(S, n) == UNION { [1..k -> S] : k \in 0..n }

RECURSIVE Concat(_)
Concat(ss) == IF ss = <<>> THEN <<>> ELSE Head(ss) \o Concat(Tail(ss))

\* bit test, as the code's (x & bit) for the one-bit masks it uses
HasBit(x, bit) == (x \div bit) % 2 = 1

----------------------------------------------------------------------------
(* The input header: samples in header order and the BCF_DT_ID dictionary. *)
(* A dictionary id is shared by the INFO and the FORMAT declaration of the *)
(* same name; id 0 is the PASS filter.                                     *)

hdr_in ==
    [ samples |-> << <<"A">>, <<"B">>, <<"C">> >>,
      dict    |-> << [name |-> "PASS", info |-> FALSE, fmt |-> FALSE],
                     [name |-> "DP",   info |-> TRUE,  fmt |-> TRUE],
                     [name |-> "AF",   info |-> TRUE,  fmt |-> FALSE],
                     [name |-> "MQ",   info |-> TRUE,  fmt |-> FALSE],
                     [name |-> "GT",   info |-> FALSE, fmt |-> TRUE] >> ]

bcf_hdr_nsamples(hdr) == Len(hdr.samples)

\* bcf_hdr_id2int(hdr, BCF_DT_SAMPLE, name): the sample's index, or -1
SampleId2Int(hdr, name) ==
    IF \E i \in 1..Len(hdr.samples) : hdr.samples[i] = name
    THEN (CHOOSE i \in 1..Len(hdr.samples) : hdr.samples[i] = name) - 1
    ELSE -1

\* bcf_hdr_id2int(hdr, BCF_DT_ID, name): the dictionary id, or -1
TagId2Int(hdr, name) ==
    IF \E i \in 1..Len(hdr.dict) : hdr.dict[i].name = name
    THEN (CHOOSE i \in 1..Len(hdr.dict) : hdr.dict[i].name = name) - 1
    ELSE -1

BCF_HL_INFO == "INFO"
BCF_HL_FMT == "FMT"

\* bcf_hdr_idinfo_exists(hdr, type, id)
bcf_hdr_idinfo_exists(hdr, type, id) ==
    /\ id >= 0
    /\ id < Len(hdr.dict)
    /\ IF type = BCF_HL_INFO THEN hdr.dict[id + 1].info ELSE hdr.dict[id + 1].fmt

----------------------------------------------------------------------------
(* init_subsets: the group registry *)

\* a subset_t whose smpl array was calloc'ed with n slots. Two fields are not
\* the program's: line (the samples-file line, or the header sample, the
\* group was made from) and nwritten (the records written to fh so far)
NewSet(n) ==
    [ nsmpl  |-> n,
      smpl   |-> [k \in 1..n |-> 0],
      rename |-> NoArray,
      fname  |-> NullPtr,
      fh     |-> NullPtr,
      hdr    |-> NoHdr,
      filter |-> NoFilter,
      line   |-> 0,
      nwritten |-> 0 ]

\* split.c:118-127, the implicit registry: one single-sample group per sample
ImplicitSets(hdr) ==
    [ i \in 1..bcf_hdr_nsamples(hdr) |->
        [ NewSet(1) EXCEPT !.smpl = <<i - 1>>, !.fname = hdr.samples[i], !.line = i ] ]

RECURSIVE ResolveLoop(_, _, _, _, _)
\* split.c:156-169: walk the comma-separated names of the buffer, storing the
\* index of each name the header knows at smpl[j++] and warning about the others
ResolveLoop(hdr, toks, smpl, j, warn) ==
    IF toks = <<>> THEN [smpl |-> smpl, j |-> j, warn |-> warn]
    ELSE LET idx == SampleId2Int(hdr, Head(toks))
         IN  IF idx >= 0
             THEN ResolveLoop(hdr, Tail(toks), [smpl EXCEPT ![j + 1] = idx], j + 1, warn)
             ELSE ResolveLoop(hdr, Tail(toks), smpl, j, warn + 1)

RECURSIVE RenameLoop(_, _, _, _)
\* split.c:178-189: store the rename values at rename[j++]; the length check
\* runs only after a value that is followed by another one
RenameLoop(toks, rename, j, nsmpl) ==
    LET stored == [rename EXCEPT ![j + 1] = Head(toks)]
    IN  IF Len(toks) = 1 THEN [err |-> FALSE, rename |-> stored]
        ELSE IF j + 1 >= nsmpl THEN [err |-> TRUE, rename |-> stored]
        ELSE RenameLoop(Tail(toks), stored, j + 1, nsmpl)

\* split.c:139-195, one line of the samples file. `str` is the kstring that
\* init_subsets reuses for every line: the names written by the last line
\* whose first column was not empty, or NoArray while nothing was written.
\* A line whose first column is empty writes nothing to it, and the names
\* are then read from what the buffer still holds, cut at its first comma.
ParseLine(hdr, line, i, str) ==
    LET written == line.names # <<>>
        nsmpl   == IF written THEN Len(line.names) ELSE 1
        buf     == IF written THEN line.names ELSE str
        toks    == IF written THEN line.names ELSE <<Head(str)>>
    IN  IF buf = NoArray THEN [status |-> "crash", str |-> buf, warn |-> 0]
        ELSE
        LET r   == ResolveLoop(hdr, toks, NewSet(nsmpl).smpl, 0, 0)
            set == [NewSet(nsmpl) EXCEPT !.smpl = r.smpl, !.line = i]
        IN  IF r.j = 0 THEN [status |-> "skip", str |-> buf, warn |-> r.warn]
            ELSE IF line.rename # <<>>
            THEN LET rn == RenameLoop(line.rename, [k \in 1..nsmpl |-> NullPtr], 0, nsmpl)
                 IN  IF rn.err
                     THEN [status |-> "error", str |-> buf, warn |-> r.warn]
                     ELSE [status |-> "ok", str |-> buf, warn |-> r.warn,
                           set |-> [set EXCEPT !.rename = rn.rename,
                                               !.fname = rn.rename[1]]]
            ELSE [status |-> "ok", str |-> buf, warn |-> r.warn,
                  set |-> [set EXCEPT !.fname = hdr.samples[set.smpl[1] + 1]]]

RECURSIVE SubsetsLoop(_, _, _, _, _, _)
\* split.c:137-196, the loop over the lines
SubsetsLoop(hdr, files, i, acc, str, warn) ==
    IF i > Len(files) THEN [status |-> "ok", sets |-> acc, warn |-> warn]
    ELSE LET r == ParseLine(hdr, files[i], i, str)
         IN  CASE r.status = "crash" -> [status |-> "crash", sets |-> acc, warn |-> warn]
               [] r.status = "error" -> [status |-> "error", sets |-> acc, warn |-> warn + r.warn]
               [] r.status = "skip"  -> SubsetsLoop(hdr, files, i + 1, acc, r.str, warn + r.warn)
               [] OTHER -> SubsetsLoop(hdr, files, i + 1, Append(acc, r.set), r.str, warn + r.warn)

\* split.c:113-201
init_subsets(hdr, samples_fname) ==
    IF ~samples_fname.given
    THEN [status |-> "ok", sets |-> ImplicitSets(hdr), warn |-> 0]
    ELSE IF samples_fname.lines = <<>>
    THEN [status |-> "error", sets |-> <<>>, warn |-> 0]
    ELSE SubsetsLoop(hdr, samples_fname.lines, 1, <<>>, NoArray, 0)

----------------------------------------------------------------------------
(* init_data, "parse tags": the tag selector *)

\* args_t after calloc: nothing kept, both membership tables unallocated
NewSel ==
    [ keep_info |-> 0, keep_fmt |-> 0,
      ninfo_tags |-> 0, minfo_tags |-> 0, info_tags |-> <<>>,
      nfmt_tags  |-> 0, mfmt_tags  |-> 0, fmt_tags  |-> <<>> ]

RECURSIVE RoundUpFrom(_, _)
RoundUpFrom(p, x) == IF p >= x THEN p ELSE RoundUpFrom(2 * p, x)

\* kroundup32: the next power of two that is at least x
kroundup32(x) == RoundUpFrom(1, x)

\* hts_expand0(uint8_t, n, m, ptr): grow the table to kroundup32(n) zeroed
\* bytes when n exceeds its capacity m; <<capacity, table>>
hts_expand0(n, m, tab) ==
    IF n > m
    THEN LET m2 == kroundup32(n)
         IN  <<m2, tab \o [k \in 1..(m2 - m) |-> 0]>>
    ELSE <<m, tab>>

\* split.c:240-245
MarkInfo(s, id) ==
    LET n == IF id >= s.ninfo_tags THEN id + 1 ELSE s.ninfo_tags
        e == hts_expand0(n, s.minfo_tags, s.info_tags)
    IN  [s EXCEPT !.ninfo_tags = n, !.minfo_tags = e[1],
                  !.info_tags = [e[2] EXCEPT ![id + 1] = 1]]

\* split.c:246-251
MarkFmt(s, id) ==
    LET n == IF id >= s.nfmt_tags THEN id + 1 ELSE s.nfmt_tags
        e == hts_expand0(n, s.mfmt_tags, s.fmt_tags)
    IN  [s EXCEPT !.nfmt_tags = n, !.mfmt_tags = e[1],
                  !.fmt_tags = [e[2] EXCEPT ![id + 1] = 1]]

\* split.c:235-251: look the name up and mark it in the table of the current
\* category when the header declares it there
MarkName(hdr, s, name, is_info, is_fmt) ==
    LET id == TagId2Int(hdr, name)
        s1 == IF is_info = 1 /\ bcf_hdr_idinfo_exists(hdr, BCF_HL_INFO, id)
              THEN MarkInfo(s, id) ELSE s
    IN  IF is_fmt = 1 /\ bcf_hdr_idinfo_exists(hdr, BCF_HL_FMT, id)
        THEN MarkFmt(s1, id) ELSE s1

RECURSIVE ParseTagsLoop(_, _, _, _, _)
\* split.c:224-252. A token is [pfx, name]: "INFO/DP" is ["INFO/", "DP"], the
\* bare keyword "INFO" and a bare name "DP" have pfx "". strcasecmp matches a
\* bare keyword only when it is the last token, strncasecmp with the comma
\* when another token follows.
ParseTagsLoop(hdr, toks, is_info, is_fmt, s) ==
    IF toks = <<>> THEN s
    ELSE
    LET t    == Head(toks)
        last == Len(toks) = 1
        bare == t.pfx = ""
    IN  CASE t.pfx = "INFO/" ->
               ParseTagsLoop(hdr, Tail(toks), 1, 0, MarkName(hdr, s, t.name, 1, 0))
          [] bare /\ t.name = "INFO" /\ last -> [s EXCEPT !.keep_info = 1]
          [] bare /\ t.name = "INFO" /\ ~last ->
               ParseTagsLoop(hdr, Tail(toks), is_info, is_fmt, [s EXCEPT !.keep_info = 1])
          [] t.pfx \in {"FMT/", "FORMAT/"} ->
               ParseTagsLoop(hdr, Tail(toks), 0, 1, MarkName(hdr, s, t.name, 0, 1))
          [] bare /\ t.name \in {"FMT", "FORMAT"} /\ last -> [s EXCEPT !.keep_fmt = 1]
          [] bare /\ t.name \in {"FMT", "FORMAT"} /\ ~last ->
               ParseTagsLoop(hdr, Tail(toks), is_info, is_fmt, [s EXCEPT !.keep_fmt = 1])
          [] OTHER ->
               ParseTagsLoop(hdr, Tail(toks), is_info, is_fmt,
                             MarkName(hdr, s, t.name, is_info, is_fmt))

\* TagDefaults without the default of split.c:257
TagDefaults_NoForce(s) ==
    IF s.keep_info = 0 /\ s.keep_fmt = 0 /\ s.ninfo_tags = 0 /\ s.nfmt_tags = 0
    THEN [s EXCEPT !.keep_info = 1, !.keep_fmt = 1] ELSE s

\* split.c:253-257: the defaults
TagDefaults(s) ==
    LET s1 == IF s.keep_info = 0 /\ s.keep_fmt = 0 /\ s.ninfo_tags = 0 /\ s.nfmt_tags = 0
              THEN [s EXCEPT !.keep_info = 1, !.keep_fmt = 1] ELSE s
    IN  IF s1.keep_fmt = 0 /\ s1.nfmt_tags = 0 THEN [s1 EXCEPT !.keep_fmt = 1] ELSE s1

\* split.c:221-257
parse_tags(hdr, keep_tags) == TagDefaults(ParseTagsLoop(hdr, keep_tags, 0, 0, NewSel))

----------------------------------------------------------------------------
(* init_data, the projected header *)

\* bcf_hdr_dup(hdr_in): the samples and the set of INFO/FORMAT declarations,
\* each [type, id]
bcf_hdr_dup(hdr) ==
    [ samples |-> hdr.samples,
      decl    |-> { [type |-> BCF_HL_INFO, id |-> i - 1] :
                      i \in { k \in 1..Len(hdr.dict) : hdr.dict[k].info } }
                  \cup
                  { [type |-> BCF_HL_FMT, id |-> i - 1] :
                      i \in { k \in 1..Len(hdr.dict) : hdr.dict[k].fmt } } ]

\* split.c:269-279: whether the loop removes the declaration hrec
RemoveDecl(s, hrec) ==
    \/ /\ hrec.type = BCF_HL_INFO
       /\ (s.keep_info = 0 \/ s.ninfo_tags # 0)
       /\ \/ s.keep_info = 0
          \/ hrec.id >= s.ninfo_tags
          \/ s.info_tags[hrec.id + 1] = 0
    \/ /\ hrec.type = BCF_HL_FMT
       /\ s.nfmt_tags # 0
       /\ \/ hrec.id >= s.nfmt_tags
          \/ s.fmt_tags[hrec.id + 1] = 0

\* split.c:259-288
project_header(hdr, s) ==
    LET dup == bcf_hdr_dup(hdr)
    IN  IF s.keep_info = 0 \/ s.ninfo_tags # 0 \/ s.nfmt_tags # 0
        THEN [dup EXCEPT !.decl = { h \in dup.decl : ~RemoveDecl(s, h) }]
        ELSE dup

----------------------------------------------------------------------------
(* init_data, the output files *)

\* the characters isspace() accepts, of those the model's names use
IsSpace(c) == c \in {" ", "\t"}

\* the directory given with -o, and the suffix of the default output type
output_dir == <<"o">>
Suffix == <<".vcf">>

\* split.c:294-302: the path of a group's output file
OutputPath(fname) ==
    LET dir == IF output_dir[Len(output_dir)] # "/" THEN Append(output_dir, "/")
               ELSE output_dir
    IN  dir \o [k \in 1..Len(fname) |-> IF IsSpace(fname[k]) THEN "_" ELSE fname[k]]
            \o Suffix

\* split.c:305-308: the group's header: the projected header with the
\* group's samples, renamed when the group has a rename array
SetHeader(hdr, tmp, set) ==
    [ samples |-> [j \in 1..set.nsmpl |->
                     IF set.rename # NoArray THEN set.rename[j]
                     ELSE hdr.samples[set.smpl[j] + 1]],
      decl    |-> tmp.decl ]

RECURSIVE OpenLoop(_, _, _, _, _, _)
\* split.c:291-312. `budget` is the number of sink operations (hts_open,
\* bcf_hdr_write, bcf_write) that succeed before the first one fails, -1
\* when none fails.
OpenLoop(hdr, tmp, filter_str, ss, i, budget) ==
    IF i > Len(ss) THEN [status |-> "ok", sets |-> ss, io |-> budget]
    ELSE IF budget = 0 THEN [status |-> "error", sets |-> ss, io |-> budget]
    ELSE
    LET b1     == IF budget > 0 THEN budget - 1 ELSE budget
        opened == [ss EXCEPT ![i].fh = OutputPath(ss[i].fname),
                             ![i].hdr = SetHeader(hdr, tmp, ss[i])]
    IN  IF b1 = 0 THEN [status |-> "error", sets |-> opened, io |-> b1]
        ELSE OpenLoop(hdr, tmp, filter_str,
                      [opened EXCEPT ![i].filter = filter_str], i + 1,
                      IF b1 > 0 THEN b1 - 1 ELSE b1)

----------------------------------------------------------------------------
(* Records: the BCF layout the transcoder copies from *)

BCF_BT_INT8 == 1
BCF_BT_INT16 == 2
BCF_BT_CHAR == 7

\* bytes of one element of a BCF type
TypeSize(type) == IF type = BCF_BT_INT16 THEN 2 ELSE 1

\* bcf_enc_size(s, size, type), for the sizes below 15 that occur
bcf_enc_size(size, type) == <<size * 16 + type>>

\* bcf_enc_int1(s, x), for the values an int8 holds
bcf_enc_int1(x) == bcf_enc_size(1, BCF_BT_INT8) \o <<x>>

\* ID ".", REF "A" and ALT "C", FILTER PASS: the start of every shared block
SharedId == bcf_enc_size(1, BCF_BT_CHAR) \o <<46>>
SharedAlleles == bcf_enc_size(1, BCF_BT_CHAR) \o <<65>> \o bcf_enc_size(1, BCF_BT_CHAR) \o <<67>>
SharedFilter == bcf_enc_size(1, BCF_BT_INT8) \o <<0>>

\* one INFO field as the file holds it: key, type and length, value
InfoUnit(f) == bcf_enc_int1(f.key) \o bcf_enc_size(f.n, f.type) \o f.val

RECURSIVE UnpackInfo(_, _)
\* bcf_unpack's d.info: each field's key, the offset of its value in shared.s
\* (vptr, 1-based), the bytes from the field's start to its value (vptr_off)
\* and the value's length (vptr_len)
UnpackInfo(fields, at) ==
    IF fields = <<>> THEN <<>>
    ELSE LET f == Head(fields)
         IN  <<[key |-> f.key, vptr |-> at + 3, vptr_off |-> 3, vptr_len |-> Len(f.val)]>>
             \o UnpackInfo(Tail(fields), at + Len(InfoUnit(f)))

\* a record as bcf_sr_get_line and bcf_unpack(rec, BCF_UN_ALL) hand it to
\* process: `info` lists [key, type, n, val], `fmt` lists [id, type, n, p],
\* p holding n elements for each of the header's samples
Record(pos, info, fmt) ==
    LET pre == SharedId \o SharedAlleles \o SharedFilter
    IN  [ pos |-> pos, n_allele |-> 2,
          shared |-> pre \o Concat([k \in 1..Len(info) |-> InfoUnit(info[k])]),
          unpack_size |-> <<Len(SharedId), Len(SharedAlleles), Len(SharedFilter)>>,
          n_info |-> Len(info),
          info |-> UnpackInfo(info, Len(pre) + 1),
          n_fmt |-> Len(fmt),
          fmt |-> [k \in 1..Len(fmt) |->
                     [id |-> fmt[k].id, n |-> fmt[k].n, type |-> fmt[k].type,
                      size |-> fmt[k].n * TypeSize(fmt[k].type), p |-> fmt[k].p]] ]

\* no record: the NULL bcf1_t*, and the value of rec before the first line
NoRec == [null |-> TRUE]

----------------------------------------------------------------------------
(* rec_set_info, rec_set_format: the transcoder *)

\* the byte args->info_tags[id] as rec_set_info reads it (split.c:377, no
\* bound check): the table's entry below its capacity, and beyond it whatever
\* the heap holds there, which is `heap[id]`
InfoTagByte(s, id, heap) ==
    IF id < s.minfo_tags THEN s.info_tags[id + 1] ELSE heap[id]

RECURSIVE CopyInfo(_, _, _, _)
\* split.c:373-380: <<bytes appended, fields appended>>
CopyInfo(s, r, i, heap) ==
    IF i >= r.n_info THEN <<<<>>, 0>>
    ELSE LET info == r.info[i + 1]
             rest == CopyInfo(s, r, i + 1, heap)
         IN  IF InfoTagByte(s, info.key, heap) = 0 THEN rest
             ELSE <<SubSeq(r.shared, info.vptr - info.vptr_off,
                           info.vptr + info.vptr_len - 1) \o rest[1],
                    rest[2] + 1>>

\* split.c:341-387
rec_set_info(s, set, r, out, heap) ==
    IF ~out.null THEN [out EXCEPT !.n_sample = set.nsmpl]
    ELSE
    LET o == [ null |-> FALSE, pos |-> r.pos, n_allele |-> r.n_allele,
               n_sample |-> set.nsmpl, n_info |-> 0, shared |-> <<>>,
               n_fmt |-> 0, indiv |-> <<>> ]
    IN  IF s.keep_info # 0
        THEN [o EXCEPT !.n_info = r.n_info, !.shared = r.shared]
        ELSE
        LET pre == SubSeq(r.shared, 1, r.unpack_size[1] + r.unpack_size[2] + r.unpack_size[3])
            cp  == IF s.ninfo_tags # 0 THEN CopyInfo(s, r, 0, heap) ELSE <<<<>>, 0>>
        IN  [o EXCEPT !.n_info = cp[2], !.shared = pre \o cp[1]]

\* split.c:399: whether rec_set_format skips the field
FmtSkipped(s, id) ==
    s.keep_fmt = 0 /\ (id >= s.nfmt_tags \/ s.fmt_tags[id + 1] = 0)

\* SampleSlices addressing the input by the position j in the group instead
\* of by the sample index smpl[j]
SampleSlices_ByPosition(fmt, set) ==
    Concat([j \in 1..set.nsmpl |->
              SubSeq(fmt.p, (j - 1) * fmt.size + 1, (j - 1) * fmt.size + fmt.size)])

\* split.c:403-404: the value slices of the group's samples, in group order
SampleSlices(fmt, set) ==
    Concat([j \in 1..set.nsmpl |->
              SubSeq(fmt.p, set.smpl[j] * fmt.size + 1, set.smpl[j] * fmt.size + fmt.size)])

RECURSIVE FormatLoop(_, _, _, _)
\* split.c:395-407: <<bytes of the per-sample block, fields in it>>
FormatLoop(s, set, src, i) ==
    IF i >= src.n_fmt THEN <<<<>>, 0>>
    ELSE LET fmt  == src.fmt[i + 1]
             rest == FormatLoop(s, set, src, i + 1)
         IN  IF FmtSkipped(s, fmt.id) THEN rest
             ELSE <<bcf_enc_int1(fmt.id) \o bcf_enc_size(fmt.n, fmt.type)
                      \o SampleSlices(fmt, set) \o rest[1],
                    rest[2] + 1>>

\* split.c:389-410
rec_set_format(s, set, src, dst) ==
    LET r == FormatLoop(s, set, src, 0)
    IN  [dst EXCEPT !.n_fmt = r[2], !.indiv = r[1]]

----------------------------------------------------------------------------
(* The filter, as the evaluator of filter.h sees a written record *)

\* one typed value at the head of a block: <<type, count, bytes, rest>>
TypedHead(b) ==
    LET type  == b[1] % 16
        n     == b[1] \div 16
        bytes == n * TypeSize(type)
    IN  <<type, n, SubSeq(b, 2, 1 + bytes), SubSeq(b, 2 + bytes, Len(b))>>

RECURSIVE SkipTyped(_, _)
SkipTyped(b, k) == IF k = 0 THEN b ELSE SkipTyped(TypedHead(b)[4], k - 1)

RECURSIVE DecodeInfo(_, _)
\* the INFO fields of a shared block, from the first one: [key, type, n, val]
DecodeInfo(b, k) ==
    IF k = 0 THEN <<>>
    ELSE LET key == TypedHead(b)
             val == TypedHead(key[4])
         IN  <<[key |-> key[3][1], type |-> val[1], n |-> val[2], val |-> val[3]]>>
             \o DecodeInfo(val[4], k - 1)

\* the INFO fields of a record: skip ID, the alleles and FILTER
bcf_unpack_info(o) == DecodeInfo(SkipTyped(o.shared, 2 + o.n_allele), o.n_info)

RECURSIVE DecodeFmt(_, _, _)
\* the FORMAT fields of a per-sample block: [id, type, n, p], p holding the
\* n elements of each of the record's n_sample samples
DecodeFmt(b, k, n_sample) ==
    IF k = 0 THEN <<>>
    ELSE LET key   == TypedHead(b)
             type  == key[4][1] % 16
             n     == key[4][1] \div 16
             bytes == n_sample * n * TypeSize(type)
         IN  <<[id |-> key[3][1], type |-> type, n |-> n,
                p |-> SubSeq(key[4], 2, 1 + bytes)]>>
             \o DecodeFmt(SubSeq(key[4], 2 + bytes, Len(key[4])), k - 1, n_sample)

bcf_unpack_fmt(o) == DecodeFmt(o.indiv, o.n_fmt, o.n_sample)

\* filter_test(set->filter, out, NULL) for the two expressions the runs use:
\* "INFO/DP>0" holds when the record has an INFO field DP with a value above
\* 0, "FMT/DP>0" when one of the record's samples has such a FORMAT value
filter_test(filter, hdr, o) ==
    LET dp == TagId2Int(hdr, "DP")
    IN  IF filter = "INFO/DP>0"
        THEN LET fs == bcf_unpack_info(o)
             IN  IF \E k \in 1..Len(fs) : fs[k].key = dp /\ fs[k].val[1] > 0 THEN 1 ELSE 0
        ELSE LET fs == bcf_unpack_fmt(o)
             IN  IF \E k \in 1..Len(fs) : fs[k].id = dp /\ \E j \in 1..Len(fs[k].p) : fs[k].p[j] > 0
                 THEN 1 ELSE 0

----------------------------------------------------------------------------
(* process: the fan-out of one record *)

\* GatePass without the inversion under -e
GatePass_IgnoreExclude(set, logic, o) ==
    IF set.filter = NoFilter THEN 1 ELSE filter_test(set.filter, hdr_in, o)

\* split.c:426-431: the gate: 1 without a filter, else the filter's verdict on
\* the record built for the group, inverted under -e
GatePass(set, logic, o) ==
    IF set.filter = NoFilter THEN 1
    ELSE LET pass == filter_test(set.filter, hdr_in, o)
         IN  IF HasBit(logic, FLT_EXCLUDE) THEN (IF pass # 0 THEN 0 ELSE 1) ELSE pass

RECURSIVE ProcessLoop_Sticky(_, _, _, _, _, _, _, _, _)
\* ProcessLoop with a verdict that, once a group rejected the record, stays
\* a rejection for the groups after it
ProcessLoop_Sticky(s, logic, r, heap, ss, i, out, done, budget) ==
    IF i > Len(ss) THEN [status |-> "ok", sets |-> ss, outs |-> done, io |-> budget]
    ELSE
    LET set  == ss[i]
        o    == rec_set_format(s, set, r, rec_set_info(s, set, r, out, heap))
        pass == IF done # <<>> /\ ~done[Len(done)].written THEN 0
                ELSE GatePass(set, logic, o)
    IN  IF pass = 0
        THEN ProcessLoop_Sticky(s, logic, r, heap, ss, i + 1, o,
                                Append(done, [out |-> o, written |-> FALSE]), budget)
        ELSE IF budget = 0
        THEN [status |-> "error", sets |-> ss, outs |-> done, io |-> budget]
        ELSE ProcessLoop_Sticky(s, logic, r, heap,
                                [ss EXCEPT ![i].nwritten = @ + 1], i + 1, o,
                                Append(done, [out |-> o, written |-> TRUE]),
                                IF budget > 0 THEN budget - 1 ELSE budget)

RECURSIVE ProcessLoop(_, _, _, _, _, _, _, _, _)
\* split.c:419-434. `done` collects, for every group the loop reached, the
\* record it built and whether it wrote it; `budget` is as in OpenLoop.
ProcessLoop(s, logic, r, heap, ss, i, out, done, budget) ==
    IF i > Len(ss) THEN [status |-> "ok", sets |-> ss, outs |-> done, io |-> budget]
    ELSE
    LET set  == ss[i]
        o    == rec_set_format(s, set, r, rec_set_info(s, set, r, out, heap))
        pass == GatePass(set, logic, o)
    IN  IF pass = 0
        THEN ProcessLoop(s, logic, r, heap, ss, i + 1, o,
                         Append(done, [out |-> o, written |-> FALSE]), budget)
        ELSE IF budget = 0
        THEN [status |-> "error", sets |-> ss, outs |-> done, io |-> budget]
        ELSE ProcessLoop(s, logic, r, heap,
                         [ss EXCEPT ![i].nwritten = @ + 1], i + 1, o,
                         Append(done, [out |-> o, written |-> TRUE]),
                         IF budget > 0 THEN budget - 1 ELSE budget)

\* split.c:412-436
process(s, logic, r, heap, ss, budget) ==
    ProcessLoop(s, logic, r, heap, ss, 1, NoRec, <<>>, budget)

----------------------------------------------------------------------------
(* The inputs of a run *)

\* sample names: three of the header and one it does not have
SA == <<"A">>
SB == <<"B">>
SC == <<"C">>
SX == <<"X">>

\* first columns of a samples-file line; <<>> is a line that starts with
\* white space, whose first column is empty
NameColumns == { <<>>, <<SA>>, <<SX>>, <<SA, SB>>, <<SX, SB>>, <<SA, SX>> }

\* second columns; <<>> is a line without one
RenameColumns ==
    { <<>>, << <<"N", " ", "M">> >>, << <<"N", "_", "M">>, <<"K">> >>,
      << <<"N", "_", "M">>, <<"K">>, <<"L">> >> }

Lines == [names : NameColumns, rename : RenameColumns]

NoSamplesFile == [given |-> FALSE, lines |-> <<>>]

\* tokens of a -k list
Tok(pfx, name) == [pfx |-> pfx, name |-> name]

TagTokens ==
    { Tok("", "INFO"), Tok("", "FMT"), Tok("INFO/", "DP"), Tok("INFO/", "AF"),
      Tok("INFO/", "ZZ"), Tok("FMT/", "DP"), Tok("FORMAT/", "GT"), Tok("", "DP"),
      Tok("", "GT") }

Int8(key, v) == [key |-> key, type |-> BCF_BT_INT8, n |-> 1, val |-> <<v>>]
Int16(key, lo, hi) == [key |-> key, type |-> BCF_BT_INT16, n |-> 1, val |-> <<lo, hi>>]
Fmt(id, type, n, p) == [id |-> id, type |-> type, n |-> n, p |-> p]

\* dictionary ids of the header's tags
DP == TagId2Int(hdr_in, "DP")
AF == TagId2Int(hdr_in, "AF")
MQ == TagId2Int(hdr_in, "MQ")
GT == TagId2Int(hdr_in, "GT")

GTs == Fmt(GT, BCF_BT_INT8, 2, <<10, 11, 20, 21, 30, 31>>)

\* records of the tag runs: INFO and FORMAT fields in several orders
TagRecords ==
    { Record(100, <<Int8(DP, 9), Int16(AF, 1, 2)>>,
                  <<GTs, Fmt(DP, BCF_BT_INT8, 1, <<5, 6, 7>>)>>),
      Record(200, <<Int16(AF, 3, 0), Int8(MQ, 60), Int8(DP, 0)>>,
                  <<Fmt(DP, BCF_BT_INT16, 1, <<1, 0, 2, 0, 3, 1>>)>>),
      Record(300, <<Int8(MQ, 50)>>, <<GTs>>),
      Record(400, <<>>, <<Fmt(DP, BCF_BT_INT8, 1, <<1, 2, 3>>), GTs>>) }

\* records of the filter runs: DP above 0 in some samples, in one, in none
FilterRecords ==
    { Record(100, <<Int8(DP, 9)>>, <<GTs, Fmt(DP, BCF_BT_INT8, 1, <<5, 0, 7>>)>>),
      Record(200, <<Int8(DP, 0), Int8(MQ, 60)>>, <<Fmt(DP, BCF_BT_INT8, 1, <<0, 0, 1>>)>>),
      Record(300, <<Int8(MQ, 50)>>, <<Fmt(DP, BCF_BT_INT8, 1, <<0, 0, 0>>), GTs>>) }

\* the bytes the heap may hold behind the info_tags table, by the id read
Heaps == [{ id \in 0..(Len(hdr_in.dict) - 1) : hdr_in.dict[id + 1].info } -> {0, 1}]

Config(samples_fname, keep_tags, filter_str, filter_logic) ==
    [ samples_fname |-> samples_fname, keep_tags |-> keep_tags,
      filter_str |-> filter_str, filter_logic |-> filter_logic ]

\* runs with a samples file: default tags, no filter, one record
GroupRuns ==
    /\ \E ls \in SeqsUpTo(Lines, MaxLines) :
          cfg = Config([given |-> TRUE, lines |-> ls], <<>>, NoFilter, 0)
    /\ stream = <<CHOOSE r \in TagRecords : r.pos = 100>>
    /\ io = -1

\* runs with a tag list: one group per sample, no filter, a short stream
TagRuns ==
    /\ \E ts \in SeqsUpTo(TagTokens, MaxTags) : cfg = Config(NoSamplesFile, ts, NoFilter, 0)
    /\ stream \in SeqsUpTo(TagRecords, MaxTagRecs)
    /\ io = -1

\* runs with -i or -e (or both, or neither), with and without a samples file
\* and a tag list, and with an output that fails after some operations
FilterRuns ==
    /\ \E sf \in { NoSamplesFile,
                   [given |-> TRUE, lines |-> <<[names |-> <<SA, SB>>, rename |-> <<>>]>>],
                   [given |-> TRUE, lines |-> <<[names |-> <<SC>>, rename |-> <<>>],
                                               [names |-> <<SB, SA>>, rename |-> <<>>]>>] },
          ts \in { <<>>, <<Tok("FMT/", "GT")>>, <<Tok("INFO/", "MQ"), Tok("FMT/", "DP")>> },
          f  \in { <<NoFilter, 0>> }
                 \cup ({"INFO/DP>0", "FMT/DP>0"}
                       \X {FLT_INCLUDE, FLT_EXCLUDE, FLT_INCLUDE + FLT_EXCLUDE}) :
          cfg = Config(sf, ts, f[1], f[2])
    /\ stream \in SeqsUpTo(FilterRecords, MaxRecs)
    /\ io \in {-1, 5, 8}

Init ==
    /\ pc = "args"
    /\ sets = <<>>
    /\ nwarn = 0
    /\ sel = NewSel
    /\ tmp_hdr = NoHdr
    /\ nread = 0
    /\ rec = NoRec
    /\ outs = <<>>
    /\ (GroupRuns \/ TagRuns \/ FilterRuns)

----------------------------------------------------------------------------
(* The steps of run *)

\* split.c:491-492: the checks of run before init_data
ParseArgs ==
    /\ pc = "args"
    /\ pc' = IF cfg.filter_logic = FLT_EXCLUDE + FLT_INCLUDE THEN "fatal" ELSE "subsets"
    /\ UNCHANGED <<cfg, sets, nwarn, sel, tmp_hdr, stream, io, nread, rec, outs>>

\* split.c:217-219: init_subsets; error() ends the run, and so does the read
\* through the NULL buffer
InitSubsets ==
    /\ pc = "subsets"
    /\ LET r == IF bcf_hdr_nsamples(hdr_in) = 0
                THEN [status |-> "error", sets |-> <<>>, warn |-> 0]
                ELSE init_subsets(hdr_in, cfg.samples_fname)
       IN  /\ pc' = CASE r.status = "ok" -> "tags"
                      [] r.status = "error" -> "fatal"
                      [] OTHER -> "crash"
           /\ sets' = r.sets
           /\ nwarn' = r.warn
    /\ UNCHANGED <<cfg, sel, tmp_hdr, stream, io, nread, rec, outs>>

\* split.c:221-257
ParseTags ==
    /\ pc = "tags"
    /\ sel' = parse_tags(hdr_in, cfg.keep_tags)
    /\ pc' = "header"
    /\ UNCHANGED <<cfg, sets, nwarn, tmp_hdr, stream, io, nread, rec, outs>>

\* split.c:259-288
ProjectHeader ==
    /\ pc = "header"
    /\ tmp_hdr' = project_header(hdr_in, sel)
    /\ pc' = "open"
    /\ UNCHANGED <<cfg, sets, nwarn, sel, stream, io, nread, rec, outs>>

\* split.c:290-314
OpenOutputs ==
    /\ pc = "open"
    /\ LET r == OpenLoop(hdr_in, tmp_hdr, cfg.filter_str, sets, 1, io)
       IN  /\ sets' = r.sets
           /\ io' = r.io
           /\ pc' = IF r.status = "ok" THEN "stream" ELSE "fatal"
    /\ UNCHANGED <<cfg, nwarn, sel, tmp_hdr, stream, nread, rec, outs>>

\* split.c:496, 412-436: pull the next record and fan it out
Process ==
    /\ pc = "stream"
    /\ nread < Len(stream)
    /\ \E heap \in Heaps :
         LET r == process(sel, cfg.filter_logic, stream[nread + 1], heap, sets, io)
         IN  /\ sets' = r.sets
             /\ outs' = r.outs
             /\ io' = r.io
             /\ pc' = IF r.status = "ok" THEN "stream" ELSE "fatal"
    /\ rec' = stream[nread + 1]
    /\ nread' = nread + 1
    /\ UNCHANGED <<cfg, nwarn, sel, tmp_hdr, stream>>

\* split.c:496-499: the end of the stream, destroy_data
Destroy ==
    /\ pc = "stream"
    /\ nread = Len(stream)
    /\ pc' = "done"
    /\ UNCHANGED <<cfg, sets, nwarn, sel, tmp_hdr, stream, io, nread, rec, outs>>

Next ==
    \/ ParseArgs
    \/ InitSubsets
    \/ ParseTags
    \/ ProjectHeader
    \/ OpenOutputs
    \/ Process
    \/ Destroy

Spec == Init /\ [][Next]_vars

----------------------------------------------------------------------------
(* Vocabulary of the claims *)

\* every line of the samples file has names in its first column
WellFormed == \A k \in 1..Len(cfg.samples_fname.lines) : cfg.samples_fname.lines[k].names # <<>>

\* init_subsets returned: the registry is built
RegistryBuilt == pc \in {"tags", "header", "open", "stream", "done"}

\* the run has a samples file (explicit mode)
Explicit == cfg.samples_fname.given

SpecLines == cfg.samples_fname.lines

RECURSIVE ResolvedOf(_)
\* the indices of the names of a first column that the header has, in the
\* order written
ResolvedOf(names) ==
    IF names = <<>> THEN <<>>
    ELSE (IF \E k \in 1..Len(hdr_in.samples) : hdr_in.samples[k] = Head(names)
          THEN <<(CHOOSE k \in 1..Len(hdr_in.samples) : hdr_in.samples[k] = Head(names)) - 1>>
          ELSE <<>>) \o ResolvedOf(Tail(names))

----------------------------------------------------------------------------
(* C1 *)

\* C1 (as claimed): in explicit mode every group made from a line whose first
\* column holds names has as many samples as names of that column resolve,
\* and its index list is those resolved indices in the order written.
C1_ResolvedOnly ==
    (RegistryBuilt /\ Explicit) =>
        \A g \in 1..Len(sets) :
            SpecLines[sets[g].line].names # <<>> =>
                /\ sets[g].nsmpl = Len(ResolvedOf(SpecLines[sets[g].line].names))
                /\ sets[g].smpl = ResolvedOf(SpecLines[sets[g].line].names)

----------------------------------------------------------------------------
(* C2 *)

\* a line whose names all resolve and whose rename column has another number
\* of values than the first column has names
RenameMismatch(l) ==
    /\ l.names # <<>>
    /\ Len(ResolvedOf(l.names)) = Len(l.names)
    /\ l.rename # <<>>
    /\ Len(l.rename) # Len(l.names)

\* C2 (as claimed): in explicit mode a line whose rename column has more or
\* fewer values than the group has samples ends setup in a fatal error (or
\* setup ended before that line was reached), and no output file is opened.
C2_MismatchFatal ==
    (Explicit /\ WellFormed /\ \E k \in 1..Len(SpecLines) : RenameMismatch(SpecLines[k])) =>
        /\ pc \in {"args", "subsets", "fatal", "crash"}
        /\ \A g \in 1..Len(sets) : sets[g].fh = NullPtr

----------------------------------------------------------------------------
(* C3 *)

\* the tags are parsed: sel holds the selector the run uses
TagsParsed == pc \in {"header", "open", "stream", "done"}

\* the selector as the loop over the -k list left it, before the defaults
RawSel == ParseTagsLoop(hdr_in, cfg.keep_tags, 0, 0, NewSel)

\* the default of split.c:257 applied: the list selected no per-sample field
\* and keep_fmt was forced on
ForcedKeepFmt == RawSel.keep_fmt = 0 /\ RawSel.nfmt_tags = 0

ExactlyOne(a, b) == (a /\ ~b) \/ (~a /\ b)

\* C3 (as claimed): after tag parsing, unless keep_fmt was forced on, exactly
\* one of keep_info and ninfo_tags>0 holds and exactly one of keep_fmt and
\* nfmt_tags>0 holds.
C3_ExactlyOne ==
    (TagsParsed /\ ~ForcedKeepFmt) =>
        /\ ExactlyOne(sel.keep_info = 1, sel.ninfo_tags > 0)
        /\ ExactlyOne(sel.keep_fmt = 1, sel.nfmt_tags > 0)

\* C3 (amended): after tag parsing at least one of keep_fmt and nfmt_tags>0
\* holds, and at least one of keep_info and ninfo_tags>0 holds unless the
\* list itself selected FORMAT (it set keep_fmt or marked a FORMAT name), in
\* which case every INFO field is dropped.
C3_AtLeastOne ==
    TagsParsed =>
        /\ sel.keep_fmt = 1 \/ sel.nfmt_tags > 0
        /\ (sel.keep_info = 0 /\ sel.ninfo_tags = 0) =>
              (RawSel.keep_fmt = 1 \/ RawSel.nfmt_tags > 0)

\* C3 witness: a list that selects INFO names only, so that keep_fmt is forced
\* on, and a list that drops every INFO field
C3_Witness ==
    /\ TagsParsed
    /\ cfg.keep_tags = <<Tok("INFO/", "AF")>>
    /\ sel.keep_fmt = 1 /\ sel.nfmt_tags = 0 /\ sel.keep_info = 0 /\ sel.ninfo_tags = 3

----------------------------------------------------------------------------
(* C4 *)

HeaderProjected == pc \in {"open", "stream", "done"}

\* whether the transcoder keeps a field: rec_set_info copies every INFO field
\* under keep_info and otherwise those marked in info_tags; rec_set_format
\* copies every FORMAT field under keep_fmt and otherwise those marked in
\* fmt_tags
Retained(type, id) ==
    IF type = BCF_HL_INFO
    THEN sel.keep_info = 1 \/ (id < sel.ninfo_tags /\ sel.info_tags[id + 1] = 1)
    ELSE sel.keep_fmt = 1 \/ (id < sel.nfmt_tags /\ sel.fmt_tags[id + 1] = 1)

\* C4 (as claimed): the projected header keeps an INFO or FORMAT declaration
\* of the input header exactly when the transcoder keeps that field, and it
\* is the input header unchanged when both categories are "keep all".
C4_HeaderMatchesSelector ==
    HeaderProjected =>
        /\ \A h \in bcf_hdr_dup(hdr_in).decl :
              (h \in tmp_hdr.decl) <=> Retained(h.type, h.id)
        /\ (sel.keep_info = 1 /\ sel.keep_fmt = 1) => tmp_hdr = bcf_hdr_dup(hdr_in)

----------------------------------------------------------------------------
(* C5 *)

\* process returned for the record rec
Processed == pc \in {"stream", "done"} /\ rec # NoRec

RECURSIVE RetainedInfo(_)
\* the INFO fields of a decoded list whose id is in the explicit INFO set
RetainedInfo(fs) ==
    IF fs = <<>> THEN <<>>
    ELSE (IF Head(fs).key < sel.ninfo_tags /\ sel.info_tags[Head(fs).key + 1] = 1
          THEN <<Head(fs)>> ELSE <<>>) \o RetainedInfo(Tail(fs))

\* C5 (as claimed): with keep_info off, every group's output record carries,
\* after the ID, allele and FILTER bytes of the input, exactly the input's
\* INFO fields whose id is in the retained set, in their order, and n_info
\* counts them.
C5_OnlyRetainedInfo ==
    (Processed /\ sel.keep_info = 0) =>
        \A g \in 1..Len(outs) :
            LET o    == outs[g].out
                kept == RetainedInfo(bcf_unpack_info(rec))
            IN  /\ o.n_info = Len(kept)
                /\ o.shared = SubSeq(rec.shared, 1, Len(SharedId \o SharedAlleles \o SharedFilter))
                                \o Concat([k \in 1..Len(kept) |-> InfoUnit(kept[k])])

----------------------------------------------------------------------------
(* C6 *)

RECURSIVE RetainedFmt(_)
\* the FORMAT fields of a list that the selector retains
RetainedFmt(fs) ==
    IF fs = <<>> THEN <<>>
    ELSE (IF sel.keep_fmt = 1
             \/ (Head(fs).id < sel.nfmt_tags /\ sel.fmt_tags[Head(fs).id + 1] = 1)
          THEN <<Head(fs)>> ELSE <<>>) \o RetainedFmt(Tail(fs))

RECURSIVE BlockLength(_)
\* the bytes of a one-sample block holding the fields fs: for each field two
\* bytes of id, one of type and count, and one sample's values
BlockLength(fs) == IF fs = <<>> THEN 0 ELSE 3 + Head(fs).size + BlockLength(Tail(fs))

\* C6: without a samples file the registry has one single-sample group per
\* header sample, in header order, and for every record the block built for
\* group i decodes to the retained FORMAT fields of the input, in their
\* order, each holding one sample's values: the bytes of input sample i.
C6_ImplicitSlices ==
    ~Explicit =>
        /\ RegistryBuilt =>
             /\ Len(sets) = Len(hdr_in.samples)
             /\ \A i \in 1..Len(sets) : sets[i].nsmpl = 1 /\ sets[i].smpl = <<i - 1>>
        /\ Processed =>
             \A i \in 1..Len(outs) :
                LET o    == outs[i].out
                    kept == RetainedFmt(rec.fmt)
                    d    == bcf_unpack_fmt(o)
                IN  /\ o.n_sample = 1
                    /\ o.n_fmt = Len(kept)
                    /\ Len(o.indiv) = BlockLength(kept)
                    /\ \A k \in 1..Len(kept) :
                         /\ d[k].id = kept[k].id
                         /\ d[k].type = kept[k].type
                         /\ d[k].n = kept[k].n
                         /\ Len(d[k].p) = kept[k].size
                         /\ \A b \in 1..kept[k].size :
                              d[k].p[b] = kept[k].p[(i - 1) * kept[k].size + b]

\* C6 witness: a record with two FORMAT fields, one of them retained, fanned
\* out to the three single-sample groups
C6_Witness ==
    /\ ~Explicit /\ Processed
    /\ Len(outs) = 3
    /\ sel.keep_fmt = 0
    /\ rec.n_fmt = 2
    /\ outs[3].out.n_fmt = 1
    /\ outs[3].out.indiv = <<17, DP, 17, 7>>

----------------------------------------------------------------------------
(* C7, C9 *)

\* the record the transcoder builds for group g from r when it starts from
\* an empty scratch record (the reads of info_tags beyond its capacity, which
\* the filter runs do not make, yielding 0)
OwnRecord(g, r) ==
    LET heap0 == [id \in DOMAIN (CHOOSE h \in Heaps : TRUE) |-> 0]
    IN  rec_set_format(sel, sets[g], r, rec_set_info(sel, sets[g], r, NoRec, heap0))

\* whether group g's filter, after polarity, accepts the record r
Accepted(g, r) ==
    \/ sets[g].filter = NoFilter
    \/ LET t == filter_test(sets[g].filter, hdr_in, OwnRecord(g, r))
       IN  IF cfg.filter_logic = FLT_EXCLUDE THEN t = 0 ELSE t # 0

\* C7: a group's sink never holds more records than were pulled, and at the
\* end of the stream it holds as many exactly when the group has no filter
\* or its filter accepted every record.
C7_WrittenAtMostRead ==
    /\ \A g \in 1..Len(sets) : sets[g].nwritten <= nread
    /\ pc = "done" =>
         \A g \in 1..Len(sets) :
            (sets[g].nwritten = nread) <=>
                (sets[g].filter = NoFilter \/ \A k \in 1..nread : Accepted(g, stream[k]))

\* C7 witness: at the end of a two-record stream one filtered group has
\* every record, another has fewer
C7_Witness ==
    /\ pc = "done" /\ nread = 2 /\ Len(sets) >= 2
    /\ sets[1].filter # NoFilter
    /\ \E g, h \in 1..Len(sets) : sets[g].nwritten = 2 /\ sets[h].nwritten < 2

\* C9: a record is written to a group exactly when the group has no filter
\* or the filter, after polarity, accepts the record built for that group
\* alone, whatever the loop did for the other groups.
C9_GateOnOwnRecord ==
    rec # NoRec =>
        \A g \in 1..Len(outs) : outs[g].written <=> Accepted(g, rec)

\* C9 witness: under -i, the same record rejected for one group and written
\* for a later one, and under -e the other way round
C9_Witness ==
    /\ rec # NoRec /\ Len(outs) >= 2
    /\ cfg.filter_logic = FLT_INCLUDE
    /\ cfg.filter_str = "FMT/DP>0"
    /\ ~outs[1].written /\ outs[Len(outs)].written

----------------------------------------------------------------------------
(* C8 *)

RECURSIVE LinesFrom(_)
\* the numbers k..Len(SpecLines) of the lines that name a sample the header has
LinesFrom(k) ==
    IF k > Len(SpecLines) THEN <<>>
    ELSE (IF ResolvedOf(SpecLines[k].names) # <<>> THEN <<k>> ELSE <<>>) \o LinesFrom(k + 1)

\* C8 (as claimed): in explicit mode the registry holds one group for each
\* line that names at least one sample of the header, in the order of the
\* lines, and no other group; a group's output identifier is the first value
\* of its line's rename column when there is one, else the name of its first
\* resolved sample.
C8_GroupPerResolvableLine ==
    (RegistryBuilt /\ Explicit) =>
        /\ [g \in 1..Len(sets) |-> sets[g].line] = LinesFrom(1)
        /\ \A g \in 1..Len(sets) :
             LET l == SpecLines[sets[g].line]
             IN  sets[g].fname = IF l.rename # <<>> THEN l.rename[1]
                                 ELSE hdr_in.samples[ResolvedOf(l.names)[1] + 1]

----------------------------------------------------------------------------
(* C10 *)

\* C10 (as claimed): once the outputs are open, no two groups have the same
\* output path (whatever the samples file, of those whose lines all have a
\* first column).
C10_DistinctPaths ==
    (pc \in {"stream", "done"} /\ WellFormed) =>
        \A g, h \in 1..Len(sets) : g # h => sets[g].fh # sets[h].fh

----------------------------------------------------------------------------
(* C11 *)

\* split.c:370-377: the indices at which rec_set_info reads args->info_tags
\* when it builds a record from r (its `out` is NULL): with keep_info off and
\* an explicit INFO selection, the key of every INFO field of r
InfoTagReads(s, r) ==
    IF s.keep_info = 0 /\ s.ninfo_tags # 0
    THEN { r.info[i].key : i \in 1..r.n_info }
    ELSE {}

\* split.c:395-399: the indices at which rec_set_format reads args->fmt_tags:
\* with keep_fmt off, the id of every FORMAT field of r that passes the test
\* id >= nfmt_tags to the left of the read
FmtTagReads(s, r) ==
    IF s.keep_fmt = 0
    THEN { r.fmt[i].id : i \in { k \in 1..r.n_fmt : ~(r.fmt[k].id >= s.nfmt_tags) } }
    ELSE {}

\* the transcoder ran on rec: process returned for it and the registry has a
\* group, for whose record rec_set_info and rec_set_format were called
Transcoded == Processed /\ Len(outs) >= 1

\* C11 (as claimed): while a record is transcoded, every read of the
\* retained-field tables is at an index inside the populated range:
\* info_tags[id] only for id < ninfo_tags and fmt_tags[id] only for
\* id < nfmt_tags, also for a record carrying a field whose id is larger than
\* every selected id.
C11_ReadsInRange ==
    Transcoded =>
        /\ \A id \in InfoTagReads(sel, rec) : id < sel.ninfo_tags
        /\ \A id \in FmtTagReads(sel, rec) : id < sel.nfmt_tags


====
